---------------------------- MODULE Spec2Model ----------------------------
(***************************************************************************)
(* Model of src/src/fstab.rs: parse_fstab_line and parse_fstab.            *)
(*                                                                         *)
(* A text (&str) is a sequence of characters, each character a one-letter  *)
(* string.  An Option<T> / Result<T, E> is a sequence of length at most    *)
(* one: None / Err is <<>>, Some(x) / Ok(x) is <<x>>.                      *)
(***************************************************************************)
EXTENDS Integers, Sequences, FiniteSets, TLC

VARIABLES
    lines,      \* fstab_lines: the lines the iterator yields
    idx,        \* number of lines the iterator has yielded so far
    ret,        \* the Option the map closure returned for line idx
    entries,    \* the Vec being collected
    pc          \* "iter" while collecting, "done" once FSTabFile is returned

vars == <<lines, idx, ret, entries, pc>>

-----------------------------------------------------------------------------
(* Bounds of the checked input space *)

MaxLen == 5         \* every text over ShortAlphabet up to this length
MaxTokens == 7      \* structured lines have up to this many fields
MaxLines == 3       \* line sequences over SampleLines up to this length

-----------------------------------------------------------------------------
(* Rust value range of i8 *)

I8_MIN == -128
I8_MAX == 127

None == <<>>
Some(x) == <<x>>

UnwrapOr(opt, default) == IF opt = None THEN default ELSE opt[1]

-----------------------------------------------------------------------------
(* Characters *)

IsWhitespaceSpaceOnly(c) == c = " "

\* White_Space as far as the modelled alphabet goes; both regex \s and
\* str::split_whitespace use this class.
IsWhitespace(c) == c \in {" ", "\t", "\n", "\r"}

Digits == {"0", "1", "2", "3", "4", "5", "6", "7", "8", "9"}

ToDigit(c) ==
    CASE c = "0" -> 0 [] c = "1" -> 1 [] c = "2" -> 2 [] c = "3" -> 3
      [] c = "4" -> 4 [] c = "5" -> 5 [] c = "6" -> 6 [] c = "7" -> 7
      [] c = "8" -> 8 [] c = "9" -> 9

-----------------------------------------------------------------------------
(* COMMENT_REMOVAL_REGEXP = ^\s*#.*$  (no multi-line flag: ^ and $ are the *)
(* ends of the text, and . is any character except "\n")                   *)

RECURSIVE SkipSpacesOnly(_, _)
SkipSpacesOnly(s, k) ==
    IF k <= Len(s) /\ s[k] = " " THEN SkipSpacesOnly(s, k + 1) ELSE k

RECURSIVE SkipWhitespace(_, _)
\* index of the first character at or after k that \s does not match
SkipWhitespace(s, k) ==
    IF k <= Len(s) /\ IsWhitespace(s[k]) THEN SkipWhitespace(s, k + 1) ELSE k

IsMatchUnanchoredHash(s) ==
    /\ Len(s) >= 1
    /\ s[1] = "#"
    /\ \A j \in 2..Len(s) : s[j] # "\n"

IsMatch(s) ==
    LET k == SkipWhitespace(s, 1)
    IN  /\ k <= Len(s)
        /\ s[k] = "#"
        /\ \A j \in (k + 1)..Len(s) : s[j] # "\n"

-----------------------------------------------------------------------------
(* str::split_whitespace: the non-empty substrings between whitespace *)

RECURSIVE SplitScan(_, _, _, _)
\* scan s from k; cur is the fragment being read;
\* with keepEmpty = FALSE the empty fragments are filtered out
SplitScan(s, k, cur, keepEmpty) ==
    IF k > Len(s)
    THEN IF cur = <<>> /\ ~keepEmpty THEN <<>> ELSE <<cur>>
    ELSE IF IsWhitespace(s[k])
         THEN (IF cur = <<>> /\ ~keepEmpty THEN <<>> ELSE <<cur>>)
              \o SplitScan(s, k + 1, <<>>, keepEmpty)
         ELSE SplitScan(s, k + 1, Append(cur, s[k]), keepEmpty)

SplitKeepEmpty(s) == SplitScan(s, 1, <<>>, TRUE)

SplitWhitespace(s) == SplitScan(s, 1, <<>>, FALSE)

\* the k-th call of parts.next()
PartsNext(parts, k) == IF k <= Len(parts) THEN Some(parts[k]) ELSE None

-----------------------------------------------------------------------------
(* str::parse::<i8>: optional sign, one or more ASCII digits, every        *)
(* intermediate value checked against the range of i8                      *)

RECURSIVE ParseDigits(_, _, _, _)
ParseDigits(s, k, acc, neg) ==
    IF k > Len(s) THEN Some(acc)
    ELSE IF s[k] \notin Digits THEN None
    ELSE LET v == IF neg THEN acc * 10 - ToDigit(s[k])
                         ELSE acc * 10 + ToDigit(s[k])
         IN  IF v < I8_MIN \/ v > I8_MAX THEN None
             ELSE ParseDigits(s, k + 1, v, neg)

RECURSIVE WrapDigits(_, _, _, _)
WrapDigits(s, k, acc, neg) ==
    IF k > Len(s) THEN Some(acc)
    ELSE IF s[k] \notin Digits THEN None
    ELSE LET v == IF neg THEN acc * 10 - ToDigit(s[k])
                         ELSE acc * 10 + ToDigit(s[k])
         IN  WrapDigits(s, k + 1, ((v - I8_MIN) % 256) + I8_MIN, neg)

ParseI8Wrapping(s) ==
    IF s = <<>> THEN None
    ELSE IF s = <<"+">> \/ s = <<"-">> THEN None
    ELSE IF s[1] = "-" THEN WrapDigits(s, 2, 0, TRUE)
    ELSE IF s[1] = "+" THEN WrapDigits(s, 2, 0, FALSE)
    ELSE WrapDigits(s, 1, 0, FALSE)

ParseI8(s) ==
    IF s = <<>> THEN None
    ELSE IF s = <<"+">> \/ s = <<"-">> THEN None
    ELSE IF s[1] = "-" THEN ParseDigits(s, 2, 0, TRUE)
    ELSE IF s[1] = "+" THEN ParseDigits(s, 2, 0, FALSE)
    ELSE ParseDigits(s, 1, 0, FALSE)

-----------------------------------------------------------------------------
(* parse_fstab_line *)

\* the struct literal of lines 60-71, once the three `?` have passed
FSTabEntryShifted(parts) ==
    [ spec      |-> parts[1],
      file      |-> parts[2],
      fs_type   |-> UnwrapOr(PartsNext(parts, 4), <<>>),
      options   |-> UnwrapOr(PartsNext(parts, 4), <<>>),
      dump      |-> UnwrapOr(ParseI8(UnwrapOr(PartsNext(parts, 5), <<"0">>)), 0),
      fsck_pass |-> UnwrapOr(ParseI8(UnwrapOr(PartsNext(parts, 6), <<"0">>)), 0) ]

FSTabEntrySwapped(parts) ==
    [ spec      |-> parts[2],
      file      |-> parts[1],
      fs_type   |-> parts[3],
      options   |-> UnwrapOr(PartsNext(parts, 4), <<>>),
      dump      |-> UnwrapOr(ParseI8(UnwrapOr(PartsNext(parts, 5), <<"0">>)), 0),
      fsck_pass |-> UnwrapOr(ParseI8(UnwrapOr(PartsNext(parts, 6), <<"0">>)), 0) ]

FSTabEntry(parts) ==
    [ spec      |-> parts[1],
      file      |-> parts[2],
      fs_type   |-> parts[3],
      options   |-> UnwrapOr(PartsNext(parts, 4), <<>>),
      dump      |-> UnwrapOr(ParseI8(UnwrapOr(PartsNext(parts, 5), <<"0">>)), 0),
      fsck_pass |-> UnwrapOr(ParseI8(UnwrapOr(PartsNext(parts, 6), <<"0">>)), 0) ]

RestIgnored(parts) == TRUE

\* line 72: the seventh parts.next() is None
RestIsNone(parts) == PartsNext(parts, 7) = None

ParseFstabLine(fstab) ==
    IF IsMatch(fstab) THEN None
    ELSE LET parts == SplitWhitespace(fstab)
         IN  IF \/ PartsNext(parts, 1) = None
                \/ PartsNext(parts, 2) = None
                \/ PartsNext(parts, 3) = None
             THEN None
             ELSE IF RestIsNone(parts) THEN Some(FSTabEntry(parts)) ELSE None

-----------------------------------------------------------------------------
(* parse_fstab: map, filter_map, collect *)

FilterMapPushFront(acc, x) == x \o acc

FilterMapPushUnique(acc, x) ==
    IF x # None /\ \E j \in 1..Len(acc) : acc[j] = x[1] THEN acc ELSE acc \o x

\* filter_map(|x| x) followed by collect's push: Some(e) is appended, None not
FilterMapPush(acc, x) == acc \o x

IterAdvanceOnSome(i, x) == IF x = None THEN i ELSE i + 1

\* Iterator::next moves past the line it yielded, whatever the closure made of it
IterAdvance(i, x) == i + 1

RECURSIVE ParseFstab(_)
\* the whole of parse_fstab as a function of the line sequence
ParseFstab(ls) ==
    IF ls = <<>> THEN <<>>
    ELSE FilterMapPush(ParseFstab(SubSeq(ls, 1, Len(ls) - 1)),
                       ParseFstabLine(ls[Len(ls)]))


-----------------------------------------------------------------------------
(* The checked inputs *)

ShortAlphabet == {" ", "\t", "\n", "#", "a"}

\* every text over ShortAlphabet of length at most MaxLen
ShortLines == UNION {[1..n -> ShortAlphabet] : n \in 0..MaxLen}

NumToks ==
    { <<"0">>,
      <<"1">>,
      <<"1", "2", "7">>,
      <<"1", "2", "8">>,
      <<"-", "1", "2", "8">>,
      <<"-", "1", "2", "9">>,
      <<"+", "5">>,
      <<"-">>,
      <<"x">>,
      <<"0", "0", "7">>,
      <<"2", "x">>,
      <<"9", "9", "9">> }

\* the texts tried as the k-th field of a structured line
FieldChoices(k) ==
    CASE k = 1 -> {<<"s">>, <<"#", "s">>}
      [] k = 2 -> {<<"f">>}
      [] k = 3 -> {<<"t">>}
      [] k = 4 -> {<<"o">>, <<"#">>}
      [] k \in {5, 6} -> NumToks
      [] OTHER -> {<<"#">>}

RECURSIVE TokSeqs(_)
TokSeqs(n) ==
    IF n = 0 THEN {<<>>}
    ELSE {Append(t, x) : t \in TokSeqs(n - 1), x \in FieldChoices(n)}

RECURSIVE Join(_, _)
Join(toks, sep) ==
    IF toks = <<>> THEN <<>>
    ELSE IF Len(toks) = 1 THEN toks[1]
    ELSE toks[1] \o sep \o Join(Tail(toks), sep)

Leads == {<<>>, <<" ", "\t">>}
Seps == {<<" ">>, <<"\t", " ">>}
Trails == {<<>>, <<"\t">>}

StructLines ==
    UNION { {lead \o Join(toks, sep) \o trail :
                lead \in Leads, sep \in Seps, trail \in Trails} :
            toks \in UNION {TokSeqs(n) : n \in 0..MaxTokens} }

SampleLines ==
    { <<>>,
      <<"#", " ", "a", " ", "b", " ", "c">>,
      <<"s", " ", "f", " ", "t">>,
      <<"s", " ", "f", " ", "t", " ", "o", " ", "1", " ", "2">>,
      <<"d", " ", "e">>,
      <<"a", " ", "b", " ", "c", " ", "d", " ", "0", " ", "1", " ", "#", " ", "x">>,
      <<"\t", "u", " ", "v", " ", "w", " ", "x", " ", "1", "2", "8">> }

LineSeqs == UNION {[1..n -> SampleLines] : n \in 0..MaxLines}

\* lines holding a carriage return that is not part of a line terminator
CarriageLines ==
    { <<"#", "\r", "a", " ", "b", " ", "c">>,
      <<"\r", "#", "a", " ", "b", " ", "c">>,
      <<"s", "\r", "f", " ", "t", " ", "#", "o">>,
      <<"s", " ", "f", " ", "t", "\r">> }

Inputs ==
    {<<l>> : l \in ShortLines \cup StructLines \cup CarriageLines} \cup LineSeqs

-----------------------------------------------------------------------------
(* The iteration of parse_fstab *)

Start(inputs) ==
    /\ lines \in inputs
    /\ idx = 0
    /\ ret = None
    /\ entries = <<>>
    /\ pc = "iter"

Init == Start(Inputs)

\* parse_fstab over whole files only
InitFiles == Start(LineSeqs)

\* the iterator yields one more line: map, filter_map and collect's push
IterNext ==
    /\ pc = "iter"
    /\ idx < Len(lines)
    /\ ret' = ParseFstabLine(lines[idx + 1])
    /\ idx' = IterAdvance(idx, ret')
    /\ entries' = FilterMapPush(entries, ret')
    /\ UNCHANGED <<lines, pc>>

\* the iterator is exhausted: collect returns and FSTabFile is built
Collect ==
    /\ pc = "iter"
    /\ idx = Len(lines)
    /\ pc' = "done"
    /\ UNCHANGED <<lines, idx, ret, entries>>

Next == IterNext \/ Collect

Spec == Init /\ [][Next]_vars

\* the iterator chain runs to completion: nothing in it blocks
FairSpec == InitFiles /\ [][Next]_vars /\ WF_vars(Next)


-----------------------------------------------------------------------------
(* Vocabulary of the properties, stated on the text of a line and          *)
(* independent of the scanning operators above                             *)

\* a whitespace character of a line of text
Blank(c) == c \in {" ", "\t", "\n", "\r"}

\* positions where a whitespace-delimited token begins
TokenStarts(l) ==
    {p \in 1..Len(l) : ~Blank(l[p]) /\ (p = 1 \/ Blank(l[p - 1]))}

TokenCount(l) == Cardinality(TokenStarts(l))

\* the k-th whitespace-delimited token, 1 <= k <= TokenCount(l)
Token(l, k) ==
    LET p == CHOOSE q \in TokenStarts(l) :
                 Cardinality({r \in TokenStarts(l) : r <= q}) = k
        e == CHOOSE q \in p..Len(l) :
                 /\ \A r \in p..q : ~Blank(l[r])
                 /\ (q = Len(l) \/ Blank(l[q + 1]))
    IN  SubSeq(l, p, e)

\* the first non-whitespace character is '#'
StartsWithHash(l) ==
    \E p \in 1..Len(l) : l[p] = "#" /\ \A q \in 1..(p - 1) : Blank(l[q])

\* the text is a line: it holds no line terminator
IsLine(l) == \A p \in 1..Len(l) : l[p] # "\n"

\* a signed decimal integer: optional sign, then one or more digits
IsDecimal(t) ==
    LET from == IF Len(t) >= 1 /\ t[1] \in {"+", "-"} THEN 2 ELSE 1
    IN  /\ Len(t) >= from
        /\ \A p \in from..Len(t) : t[p] \in Digits

RECURSIVE Pow10(_)
Pow10(n) == IF n = 0 THEN 1 ELSE 10 * Pow10(n - 1)

RECURSIVE SumOver(_, _, _)
\* the sum of the digits of t at the positions of ps, each at its weight
SumOver(t, ps, n) ==
    IF ps = {} THEN 0
    ELSE LET p == CHOOSE q \in ps : TRUE
         IN  ToDigit(t[p]) * Pow10(n - p) + SumOver(t, ps \ {p}, n)

DecimalValue(t) ==
    LET from == IF t[1] \in {"+", "-"} THEN 2 ELSE 1
        mag  == SumOver(t, from..Len(t), Len(t))
    IN  IF t[1] = "-" THEN 0 - mag ELSE mag

\* what a numeric field is expected to hold for token t
SmallInt(t) ==
    IF IsDecimal(t) /\ DecimalValue(t) >= -128 /\ DecimalValue(t) <= 127
    THEN DecimalValue(t) ELSE 0

\* line idx has just been handed to parse_fstab_line, ret is what it returned
Parsed == idx >= 1 /\ pc = "iter"

-----------------------------------------------------------------------------
(* C1: a line with more than six whitespace-delimited tokens makes         *)
(* parse_fstab_line return None and leaves the Table as it was, also when  *)
(* its first six tokens are well-formed.                                   *)
TooManyFieldsDropped ==
    [][ (idx' = idx + 1 /\ TokenCount(lines[idx']) > 6)
            => (ret' = None /\ entries' = entries) ]_vars

\* a full six-field record followed by a trailing '#' token was dropped
TooManyFieldsWitness ==
    /\ Parsed
    /\ TokenCount(lines[idx]) = 7
    /\ ~StartsWithHash(lines[idx])
    /\ IsDecimal(Token(lines[idx], 5))
    /\ IsDecimal(Token(lines[idx], 6))
    /\ Token(lines[idx], 7) = <<"#">>
    /\ ret = None
    /\ entries = <<>>

(* C2: a line with fewer than three whitespace-delimited tokens (the empty *)
(* and the whitespace-only line included) makes parse_fstab_line return    *)
(* None and adds nothing to the Table; no field is defaulted.              *)
TooFewFieldsDropped ==
    [][ (idx' = idx + 1 /\ TokenCount(lines[idx']) < 3)
            => (ret' = None /\ entries' = entries) ]_vars

\* a two-token line that is no comment was dropped
TooFewFieldsWitness ==
    /\ Parsed
    /\ TokenCount(lines[idx]) = 2
    /\ ~StartsWithHash(lines[idx])
    /\ ret = None
    /\ entries = <<>>

(* C3: a line whose first non-whitespace character is '#' makes            *)
(* parse_fstab_line return None whatever follows the '#'.                  *)
CommentLineDropped ==
    [][ (idx' = idx + 1 /\ IsLine(lines[idx']) /\ StartsWithHash(lines[idx']))
            => (ret' = None /\ entries' = entries) ]_vars

\* an indented comment whose text would form three to six tokens was dropped
CommentLineWitness ==
    /\ Parsed
    /\ IsLine(lines[idx])
    /\ StartsWithHash(lines[idx])
    /\ Blank(lines[idx][1])
    /\ TokenCount(lines[idx]) \in 3..6
    /\ ret = None

(* C4: a non-comment line with n tokens, 3 <= n <= 6, gives one Entry with *)
(* spec, file, fs_type the first three tokens in order, options the fourth *)
(* token or "" when absent, dump 0 when there is no fifth token and        *)
(* fsck_pass 0 when there is no sixth.                                     *)
FieldsInOrderWithDefaults ==
    (Parsed /\ ~StartsWithHash(lines[idx]) /\ TokenCount(lines[idx]) \in 3..6)
        => LET l == lines[idx]
               n == TokenCount(l)
           IN  /\ Len(ret) = 1
               /\ ret[1].spec = Token(l, 1)
               /\ ret[1].file = Token(l, 2)
               /\ ret[1].fs_type = Token(l, 3)
               /\ ret[1].options = (IF n >= 4 THEN Token(l, 4) ELSE <<>>)
               /\ (n < 5 => ret[1].dump = 0)
               /\ (n < 6 => ret[1].fsck_pass = 0)
               /\ entries[Len(entries)] = ret[1]

\* a three-token line gave options "", dump 0, fsck_pass 0
ThreeFieldsWitness ==
    /\ Parsed
    /\ TokenCount(lines[idx]) = 3
    /\ ret = Some([spec |-> <<"s">>, file |-> <<"f">>, fs_type |-> <<"t">>,
                   options |-> <<>>, dump |-> 0, fsck_pass |-> 0])

(* C5: a non-comment line with five or six tokens is accepted whatever its *)
(* fifth and sixth tokens are: dump and fsck_pass are the value of the     *)
(* token when it is a signed decimal integer in -128..127 and 0 otherwise, *)
(* and the other fields are the first four tokens.                         *)
NumericFieldsLenient ==
    (Parsed /\ ~StartsWithHash(lines[idx]) /\ TokenCount(lines[idx]) \in 5..6)
        => LET l == lines[idx]
               n == TokenCount(l)
           IN  ret = Some([ spec      |-> Token(l, 1),
                            file      |-> Token(l, 2),
                            fs_type   |-> Token(l, 3),
                            options   |-> Token(l, 4),
                            dump      |-> SmallInt(Token(l, 5)),
                            fsck_pass |-> IF n = 6 THEN SmallInt(Token(l, 6))
                                                   ELSE 0 ])

\* an out-of-range dump became 0 next to a negative fsck_pass that was kept
NumericFieldsWitness ==
    /\ Parsed
    /\ TokenCount(lines[idx]) = 6
    /\ Token(lines[idx], 5) = <<"1", "2", "8">>
    /\ Token(lines[idx], 6) = <<"-", "1", "2", "8">>
    /\ Len(ret) = 1
    /\ ret[1].dump = 0
    /\ ret[1].fsck_pass = -128


-----------------------------------------------------------------------------
\* a line that is neither a comment nor rejected for its number of fields
Kept(l) == ~StartsWithHash(l) /\ TokenCount(l) \in 3..6

\* the lines parse_fstab_line gives an Entry for
Accepted == {k \in 1..Len(lines) : ParseFstabLine(lines[k]) # None}

(* C6: the Table parse_fstab returns holds, for each accepted line, the    *)
(* Entry parse_fstab_line gives for it, at the rank the line has among the *)
(* accepted lines, and nothing else; the number of Entries is the number   *)
(* of lines that are neither comments nor rejected.                        *)
TableMirrorsAcceptedLines ==
    pc = "done" =>
        /\ Len(entries) = Cardinality(Accepted)
        /\ \A k \in Accepted :
               entries[Cardinality({m \in Accepted : m <= k})]
                   = ParseFstabLine(lines[k])[1]
        /\ (\A k \in 1..Len(lines) : IsLine(lines[k]))
               => Len(entries) = Cardinality({k \in 1..Len(lines) : Kept(lines[k])})

\* two different Entries came out in input order around a dropped line
TableOrderWitness ==
    /\ pc = "done"
    /\ Len(lines) = 3
    /\ Accepted = {1, 3}
    /\ Len(entries) = 2
    /\ entries[1] # entries[2]
    /\ entries[1] = ParseFstabLine(lines[1])[1]

\* a comment, blank or malformed line
Dropped(l) == IsLine(l) /\ ~Kept(l)

(* C7: parse_fstab terminates and returns a Table for every finite         *)
(* sequence of lines; with zero lines, or only comment, blank or malformed *)
(* lines, the Table has zero entries.                                      *)
AlwaysReturnsTable ==
    <>( /\ pc = "done"
        /\ idx = Len(lines)
        /\ (\A k \in 1..Len(lines) : Dropped(lines[k])) => entries = <<>> )

\* three lines, a comment, a blank and a malformed one, gave an empty Table
EmptyTableWitness ==
    /\ pc = "done"
    /\ Len(lines) = 3
    /\ StartsWithHash(lines[1])
    /\ TokenCount(lines[2]) = 0
    /\ TokenCount(lines[3]) > 6
    /\ \A k \in 1..3 : IsLine(lines[k])
    /\ entries = <<>>

(* C8: every Entry of the Table has a non-empty spec, file and fs_type;    *)
(* only options may be the empty text.                                     *)
RequiredFieldsNonEmpty ==
    \A j \in 1..Len(entries) :
        /\ entries[j].spec # <<>>
        /\ entries[j].file # <<>>
        /\ entries[j].fs_type # <<>>

\* a returned Table with an Entry whose options is empty
RequiredFieldsWitness ==
    /\ pc = "done"
    /\ Len(entries) >= 2
    /\ \E j \in 1..Len(entries) : entries[j].options = <<>>
    /\ \E j \in 1..Len(entries) : entries[j].options # <<>>

(* C9: a line's outcome depends on its own text only: the Table of a       *)
(* sequence of lines is the Table of any prefix followed by the Table of   *)
(* the rest, so results computed apart and put back in line order give     *)
(* the Table parse_fstab returns.                                          *)
TableOfConcatenation ==
    pc = "done" =>
        \A k \in 0..Len(lines) :
            entries = ParseFstab(SubSeq(lines, 1, k))
                        \o ParseFstab(SubSeq(lines, k + 1, Len(lines)))

\* the same accepted line occurs on both sides of a split
ConcatenationWitness ==
    /\ pc = "done"
    /\ Len(lines) = 3
    /\ lines[1] = lines[3]
    /\ Accepted = {1, 3}
    /\ Len(entries) = 2

-----------------------------------------------------------------------------
\* a space or a tab
SpaceOrTab(c) == c \in {" ", "\t"}

InsertAt(l, p, c) == SubSeq(l, 1, p - 1) \o <<c>> \o SubSeq(l, p, Len(l))

ReplaceAt(l, p, c) == SubSeq(l, 1, p - 1) \o <<c>> \o SubSeq(l, p + 1, Len(l))

DeleteAt(l, p) == SubSeq(l, 1, p - 1) \o SubSeq(l, p + 1, Len(l))

\* the lines one gets from l by one change of its spaces and tabs that
\* keeps every separator non-empty: a space or tab added to a run, before
\* the first token or after the last; one exchanged for the other; one
\* removed from a run of two or more, or from the start or end of the line
Respaced(l) ==
    LET n == Len(l)
    IN  {InsertAt(l, p, c) :
            p \in {q \in 1..(n + 1) :
                      \/ q = 1
                      \/ q = n + 1
                      \/ SpaceOrTab(l[q - 1])
                      \/ SpaceOrTab(l[q])},
            c \in {" ", "\t"}}
        \cup
        {ReplaceAt(l, p, c) :
            p \in {q \in 1..n : SpaceOrTab(l[q])}, c \in {" ", "\t"}}
        \cup
        {DeleteAt(l, p) :
            p \in {q \in 1..n :
                      /\ SpaceOrTab(l[q])
                      /\ \/ q = 1
                         \/ q = n
                         \/ SpaceOrTab(l[q - 1])
                         \/ SpaceOrTab(l[q + 1])}}

(* C10: the result of parse_fstab_line does not change when a separator is *)
(* replaced by another non-empty run of spaces and tabs, nor when spaces   *)
(* or tabs are added before the first or after the last token.             *)
RespacingKeepsResult ==
    Parsed => \A m \in Respaced(lines[idx]) : ParseFstabLine(m) = ret

\* an accepted line with a tab in a separator and leading whitespace
RespacingWitness ==
    /\ Parsed
    /\ Len(ret) = 1
    /\ SpaceOrTab(lines[idx][1])
    /\ \E p \in 2..(Len(lines[idx]) - 1) :
           /\ lines[idx][p] = "\t"
           /\ ~Blank(lines[idx][p - 1])
    /\ Cardinality(Respaced(lines[idx])) > 10


-----------------------------------------------------------------------------
\* the field of Entry e that the k-th token of a line goes to, 1 <= k <= 4
TextField(e, k) ==
    CASE k = 1 -> e.spec [] k = 2 -> e.file [] k = 3 -> e.fs_type
      [] k = 4 -> e.options

(* C11: the comment check and the tokenizer agree on where the content of  *)
(* a line starts: when no line holds a line terminator, no Entry of the    *)
(* Table has a spec that begins with '#'; and a '#' that begins a later    *)
(* token of a non-comment line with three to six tokens does not make the  *)
(* line a comment: the line is accepted and the token is the field's text  *)
(* (a numeric field it stands in is 0).                                    *)
HashOnlyLeadsComment ==
    /\ (\A k \in 1..Len(lines) : IsLine(lines[k]))
            => \A j \in 1..Len(entries) :
                   entries[j].spec = <<>> \/ entries[j].spec[1] # "#"
    /\ (Parsed /\ ~StartsWithHash(lines[idx])
               /\ TokenCount(lines[idx]) \in 3..6)
            => LET l == lines[idx]
                   n == TokenCount(l)
               IN  /\ Len(ret) = 1
                   /\ \A k \in 2..n :
                          Token(l, k)[1] = "#" =>
                              /\ k <= 4 => TextField(ret[1], k) = Token(l, k)
                              /\ k = 5 => ret[1].dump = 0
                              /\ k = 6 => ret[1].fsck_pass = 0

\* an indented line with '#' as its fourth token was accepted with options "#"
HashFieldWitness ==
    /\ Parsed
    /\ IsLine(lines[idx])
    /\ TokenCount(lines[idx]) = 6
    /\ Blank(lines[idx][1])
    /\ Token(lines[idx], 4) = <<"#">>
    /\ Len(ret) = 1
    /\ ret[1].options = <<"#">>
    /\ ret[1].spec[1] # "#"
    /\ entries = ret

====
